---- MODULE Spec2Model ----
(***************************************************************************)
(* State-machine model of map_IP_to_HOST.py: load_ip_map (first pass over  *)
(* the DNS answer file, second pass resolving CNAME chains through         *)
(* resolve_cname_chain) followed by main's correlation of the scan file.   *)
(*                                                                         *)
(* Text is modelled as a sequence of one-character strings, so that        *)
(* strip, rstrip('.'), split(':', 1) and the address syntax check are      *)
(* computed on the characters.  A decoded JSON value is a record           *)
(* [t |-> tag, v |-> payload] with tag in null, num, str, list, obj.       *)
(***************************************************************************)
EXTENDS Integers, Sequences, FiniteSets, TLC

\* ------------------------------------------------------------------ text

Digits == {"0", "1", "2", "3", "4", "5", "6", "7", "8", "9"}

HexDigits == Digits \cup {"a", "b", "c", "d", "e", "f", "A", "B", "C", "D", "E", "F"}

Whitespace == {" ", "\t", "\n", "\r"}

DigitVal(c) ==
    CASE c = "0" -> 0 [] c = "1" -> 1 [] c = "2" -> 2 [] c = "3" -> 3
      [] c = "4" -> 4 [] c = "5" -> 5 [] c = "6" -> 6 [] c = "7" -> 7
      [] c = "8" -> 8 [] OTHER -> 9

\* str.rstrip(ch): drop every trailing occurrence of the character ch.
RECURSIVE rstrip(_, _)
rstrip(s, ch) ==
    IF s # <<>> /\ s[Len(s)] = ch
    THEN rstrip(SubSeq(s, 1, Len(s) - 1), ch)
    ELSE s

RECURSIVE lstrip_ws(_)
lstrip_ws(s) ==
    IF s # <<>> /\ s[1] \in Whitespace THEN lstrip_ws(Tail(s)) ELSE s

RECURSIVE rstrip_ws(_)
rstrip_ws(s) ==
    IF s # <<>> /\ s[Len(s)] \in Whitespace
    THEN rstrip_ws(SubSeq(s, 1, Len(s) - 1))
    ELSE s

\* str.strip(): drop leading and trailing whitespace.
strip(s) == rstrip_ws(lstrip_ws(s))

startswith(s, ch) == s # <<>> /\ s[1] = ch

\* Index of the first occurrence of ch in s, 0 when there is none.
RECURSIVE FindFrom(_, _, _)
FindFrom(s, ch, i) ==
    IF i > Len(s) THEN 0
    ELSE IF s[i] = ch THEN i
    ELSE FindFrom(s, ch, i + 1)

\* str.split(sep): every piece between separators (empty pieces kept).
RECURSIVE split(_, _)
split(s, sep) ==
    LET i == FindFrom(s, sep, 1)
    IN  IF i = 0 THEN <<s>>
        ELSE <<SubSeq(s, 1, i - 1)>> \o split(SubSeq(s, i + 1, Len(s)), sep)

\* str.split(sep, 1): split at the first separator only.
split1(s, sep) ==
    LET i == FindFrom(s, sep, 1)
    IN  IF i = 0 THEN <<s>>
        ELSE <<SubSeq(s, 1, i - 1), SubSeq(s, i + 1, Len(s))>>

\* ------------------------------------------------- ipaddress.ip_address

RECURSIVE DecimalValue(_)
DecimalValue(s) ==
    IF s = <<>> THEN 0
    ELSE 10 * DecimalValue(SubSeq(s, 1, Len(s) - 1)) + DigitVal(s[Len(s)])

\* One octet of a dotted quad: 1-3 decimal digits, no leading zero, <= 255.
ValidOctet(o) ==
    /\ Len(o) \in 1..3
    /\ \A i \in 1..Len(o) : o[i] \in Digits
    /\ (Len(o) > 1 => o[1] # "0")
    /\ DecimalValue(o) <= 255

IsIPv4(s) ==
    LET parts == split(s, ".")
    IN  /\ Len(parts) = 4
        /\ \A i \in 1..4 : ValidOctet(parts[i])

ValidHextet(h) ==
    /\ Len(h) \in 1..4
    /\ \A i \in 1..Len(h) : h[i] \in HexDigits

\* IPv6 text form: eight hextets, or fewer with a single "::" (no embedded
\* dotted quad, no scope id).
IsIPv6(s) ==
    LET parts == split(s, ":")
        n     == Len(parts)
        skips == {i \in 2..(n - 1) : parts[i] = <<>>}
    IN  /\ n >= 3
        /\ n <= 9
        /\ Cardinality(skips) <= 1
        /\ IF skips # {}
           THEN LET k  == CHOOSE i \in skips : TRUE
                    hi == IF parts[1] = <<>> THEN k - 2 ELSE k - 1
                    lo == IF parts[n] = <<>> THEN n - k - 1 ELSE n - k
                IN  /\ (parts[1] = <<>> => k = 2)
                    /\ (parts[n] = <<>> => k = n - 1)
                    /\ 8 - (hi + lo) >= 1
                    /\ \A i \in 1..n : parts[i] # <<>> => ValidHextet(parts[i])
           ELSE /\ n = 8
                /\ \A i \in 1..n : ValidHextet(parts[i])

\* ip_address on text: raises ValueError unless the text is an address.
ip_address_str(s) == IsIPv4(s) \/ IsIPv6(s)

\* ------------------------------------------------------------ JSON values

JNull == [t |-> "null", v |-> 0]

JNum(n) == [t |-> "num", v |-> n]

JStr(s) == [t |-> "str", v |-> s]

JList(xs) == [t |-> "list", v |-> xs]

\* fields: a function from the member names present to their values.
JObj(fields) == [t |-> "obj", v |-> fields]

EmptyFields == [k \in {} |-> JNull]

\* What json.loads yields for a line that is not a JSON document.
JSONDecodeError == [t |-> "JSONDecodeError", v |-> 0]

JEq(a, b) == a.t = b.t /\ a.v = b.v

\* Python truthiness of a decoded value (the tests "not data", "not answers").
Truthy(j) ==
    CASE j.t = "null" -> FALSE
      [] j.t = "num"  -> j.v # 0
      [] j.t = "str"  -> Len(j.v) > 0
      [] j.t = "list" -> Len(j.v) > 0
      [] j.t = "obj"  -> DOMAIN j.v # {}
      [] OTHER        -> FALSE

\* dict.get(key, default) on a decoded JSON object.
dict_get(o, key, default) ==
    IF key \in DOMAIN o.v THEN o.v[key] ELSE default

\* ipaddress.ip_address(data): TRUE when it returns, FALSE when it raises
\* ValueError.  Text must be an address; an integer is taken as the address
\* number when it is non-negative (every number of the model is below 2^128);
\* a list or an object never is an address.
ip_address(data) ==
    CASE data.t = "str" -> ip_address_str(data.v)
      [] data.t = "num" -> data.v >= 0
      [] OTHER          -> FALSE

\* ------------------------------------------ Python dicts, insertion-ordered
\* A dict is the sequence of its <<key, value>> items in insertion order.

Keys(m) == {m[i][1] : i \in 1..Len(m)}

Has(m, k) == \E i \in 1..Len(m) : JEq(m[i][1], k)

Lookup(m, k) == m[CHOOSE i \in 1..Len(m) : JEq(m[i][1], k)][2]

\* m[k] = val: a present key keeps its position, a new key goes last.
Put(m, k, val) ==
    IF Has(m, k)
    THEN [i \in 1..Len(m) |-> IF JEq(m[i][1], k) THEN <<k, val>> ELSE m[i]]
    ELSE Append(m, <<k, val>>)

InList(x, xs) == \E i \in 1..Len(xs) : xs[i] = x

\* ip_map is a defaultdict(list): ip_map[k].append(h) creates the key.
DefaultAppend(m, k, h) ==
    IF Has(m, k) THEN Put(m, k, Append(Lookup(m, k), h))
    ELSE Append(m, <<k, <<h>>>>)

\* ------------------------------------------------- load_ip_map, first pass

TypeA == <<"A">>

TypeAAAA == <<"A", "A", "A", "A">>

TypeCNAME == <<"C", "N", "A", "M", "E">>

\* ip_map[data].append(host), line 44.
AppendDirect(m, data, host) == DefaultAppend(m, data, host)

\* One answer of a record (lines 34-51) applied to the loader's maps.
\* st.raised becomes TRUE when the statement raises an exception that
\* load_ip_map does not catch (AttributeError on .get or .rstrip).
\* (Faulty variant: the ValueError of line 45 is not caught.)
ProcessAnswerUncaught(st, host, ans) ==
    IF ans.t # "obj" THEN [st EXCEPT !.raised = TRUE]
    ELSE
      LET record_type == dict_get(ans, "type", JNull)
          data        == dict_get(ans, "data", JNull)
      IN  IF ~Truthy(data) THEN st
          ELSE IF JEq(record_type, JStr(TypeA)) \/ JEq(record_type, JStr(TypeAAAA))
          THEN IF ip_address(data)
               THEN [st EXCEPT !.ip_map = AppendDirect(st.ip_map, data, host)]
               ELSE [st EXCEPT !.raised = TRUE]
          ELSE IF JEq(record_type, JStr(TypeCNAME))
          THEN IF data.t # "str" THEN [st EXCEPT !.raised = TRUE]
               ELSE [st EXCEPT !.cname_map =
                         Put(st.cname_map, JStr(host), rstrip(data.v, "."))]
          ELSE st

\* The answer as the code handles it.
ProcessAnswer(st, host, ans) ==
    IF ans.t # "obj" THEN [st EXCEPT !.raised = TRUE]
    ELSE
      LET record_type == dict_get(ans, "type", JNull)
          data        == dict_get(ans, "data", JNull)
      IN  IF ~Truthy(data) THEN st
          ELSE IF JEq(record_type, JStr(TypeA)) \/ JEq(record_type, JStr(TypeAAAA))
          THEN IF ip_address(data)
               THEN [st EXCEPT !.ip_map = AppendDirect(st.ip_map, data, host)]
               ELSE st
          ELSE IF JEq(record_type, JStr(TypeCNAME))
          THEN IF data.t # "str" THEN [st EXCEPT !.raised = TRUE]
               ELSE [st EXCEPT !.cname_map =
                         Put(st.cname_map, JStr(host), rstrip(data.v, "."))]
          ELSE st

\* for ans in answers (line 33): the answers in order, until one raises.
RECURSIVE ProcessAnswers(_, _, _, _)
ProcessAnswers(st, host, answers, i) ==
    IF i > Len(answers) \/ st.raised THEN st
    ELSE ProcessAnswers(ProcessAnswer(st, host, answers[i]), host, answers, i + 1)

\* The body of the first-pass loop for one line (lines 19-51).  outcome:
\*   "skip"    blank line or line not starting with '{'       (lines 20-21)
\*   "badjson" json.loads raised JSONDecodeError               (lines 24-26)
\*   "norec"   empty name or no answers                        (lines 30-31)
\*   "record"  the answers were processed                      (lines 33-51)
\*   "raise"   an exception left load_ip_map
ProcessLine(line, ip_map0, cname_map0) ==
    LET text == strip(line.text)
        st0  == [ip_map |-> ip_map0, cname_map |-> cname_map0, raised |-> FALSE]
        out(o, st) == [outcome |-> o, ip_map |-> st.ip_map, cname_map |-> st.cname_map]
    IN  IF text = <<>> \/ ~startswith(text, "{") THEN out("skip", st0)
        ELSE IF JEq(line.json, JSONDecodeError) THEN out("badjson", st0)
        ELSE
          LET obj  == line.json
              name == dict_get(obj, "name", JStr(<<>>))
          IN  IF name.t # "str" THEN out("raise", st0)
              ELSE
                LET host == rstrip(name.v, ".")
                    data == dict_get(obj, "data", JObj(EmptyFields))
                IN  IF data.t # "obj" THEN out("raise", st0)
                    ELSE
                      LET answers == dict_get(data, "answers", JList(<<>>))
                      IN  IF host = <<>> \/ ~Truthy(answers) THEN out("norec", st0)
                          \* iterating a number raises TypeError; the items of a
                          \* string or of an object are strings, and ans.get raises.
                          ELSE IF answers.t # "list" THEN out("raise", st0)
                          ELSE LET st == ProcessAnswers(st0, host, answers.v, 1)
                               IN  out(IF st.raised THEN "raise" ELSE "record", st)

\* The valid direct answers a record of the input holds: the <<host, address>>
\* pairs of its A/AAAA answers whose data is an address (read off the input,
\* not off ip_map).
IsDirectAnswer(ans) ==
    /\ ans.t = "obj"
    /\ "type" \in DOMAIN ans.v
    /\ "data" \in DOMAIN ans.v
    /\ (JEq(ans.v["type"], JStr(TypeA)) \/ JEq(ans.v["type"], JStr(TypeAAAA)))
    /\ Truthy(ans.v["data"])
    /\ ip_address(ans.v["data"])

\* The line is a record every field of which has the documented type: a
\* non-empty name, a non-empty list of answer objects, text as CNAME data.
WellFormedRecord(line) ==
    /\ startswith(strip(line.text), "{")
    /\ line.json.t = "obj"
    /\ "name" \in DOMAIN line.json.v
    /\ line.json.v["name"].t = "str"
    /\ rstrip(line.json.v["name"].v, ".") # <<>>
    /\ "data" \in DOMAIN line.json.v
    /\ line.json.v["data"].t = "obj"
    /\ "answers" \in DOMAIN line.json.v["data"].v
    /\ line.json.v["data"].v["answers"].t = "list"
    /\ Len(line.json.v["data"].v["answers"].v) > 0
    /\ \A i \in 1..Len(line.json.v["data"].v["answers"].v) :
          LET ans == line.json.v["data"].v["answers"].v[i]
          IN  /\ ans.t = "obj"
              /\ (JEq(dict_get(ans, "type", JNull), JStr(TypeCNAME))
                    /\ Truthy(dict_get(ans, "data", JNull)))
                   => dict_get(ans, "data", JNull).t = "str"

DirectPairs(line) ==
    IF ~WellFormedRecord(line) THEN {}
    ELSE LET host    == rstrip(line.json.v["name"].v, ".")
             answers == line.json.v["data"].v["answers"].v
         IN  {<<host, answers[i].v["data"]>> :
                 i \in {j \in 1..Len(answers) : IsDirectAnswer(answers[j])}}

\* ------------------------------------------- load_ip_map, second pass

max_depth == 10

\* Line 71: the cycle and depth guard of resolve_cname_chain.
\* (Faulty variant: the guard without the visited test.)
ChainStopsDepthOnly(tgt, seen) == Cardinality(seen) >= max_depth

ChainStops(tgt, seen) == tgt \in seen \/ Cardinality(seen) >= max_depth

\* Lines 78-80: the addresses whose host list holds tgt, in ip_map's order.
\* (Faulty variant: every address, whatever its list holds.)
AllIPs(m, tgt, i) == [k \in 1..Len(m) |-> m[k][1]]

RECURSIVE DirectIPs(_, _, _)
DirectIPs(m, tgt, i) ==
    IF i > Len(m) THEN <<>>
    ELSE (IF InList(tgt, m[i][2]) THEN <<m[i][1]>> ELSE <<>>)
         \o DirectIPs(m, tgt, i + 1)

\* Line 83: the target has a CNAME of its own.
\* (Faulty variant: the chain is never followed.)
NeverFollows(m, tgt) == FALSE

FollowsCname(m, tgt) == Has(m, JStr(tgt))

\* Lines 57-58: append the CNAME host to one address's list unless present.
AppendIfAbsent(hosts, h) == IF InList(h, hosts) THEN hosts ELSE Append(hosts, h)

\* Lines 56-58: for ip in resolved_ips.  resolved_ips holds keys of ip_map
\* only (line 78 gathers them from ip_map.items()), so ip_map[ip] creates no
\* key, and an address met again finds the host already in its list.
ExtendAll(m, ips, h) ==
    [k \in 1..Len(m) |->
        IF \E i \in 1..Len(ips) : JEq(ips[i], m[k][1])
        THEN <<m[k][1], AppendIfAbsent(m[k][2], h)>>
        ELSE m[k]]

\* ------------------------------------------------------------------ main

\* ip_map.get(ip_part), line 116: the list found (<<>> for None) and the
\* mapping after the lookup.
\* (Faulty variant: ip_map[ip_part], which makes a defaultdict create the key.)
MapGetItem(m, k) ==
    [hosts |-> IF Has(m, k) THEN Lookup(m, k) ELSE <<>>,
     ip_map |-> IF Has(m, k) THEN m ELSE Append(m, <<k, <<>> >>)]

MapGet(m, k) ==
    [hosts |-> IF Has(m, k) THEN Lookup(m, k) ELSE <<>>, ip_map |-> m]

\* Lines 104-108: ip_part and port of a stripped entry.
IpPart(entry) == split1(entry, ":")[1]

HasPort(entry) == Len(split1(entry, ":")) = 2

Port(entry) == split1(entry, ":")[2]

\* Line 122: f"{host}:{port}" if port else host.
\* (Faulty variant: the test is 'port is not None'.)
FormatLineNotNone(host, entry) ==
    IF HasPort(entry) THEN host \o <<":">> \o Port(entry) ELSE host

FormatLine(host, entry) ==
    IF HasPort(entry) /\ Port(entry) # <<>>
    THEN host \o <<":">> \o Port(entry)
    ELSE host

\* Lines 121-122: one printed line per host of the list, in list order.
EmitAll(hosts, entry) == [i \in 1..Len(hosts) |-> FormatLine(hosts[i], entry)]

Warn(msg, n, text) == [msg |-> msg, lineno |-> n, text |-> text]

\* ---------------------------------------------------------------- inputs

MaxLines == 3

MaxScan == 2

HostA == <<"a">>

HostB == <<"b">>

HostC == <<"c">>

IPX == <<"1", ".", "1", ".", "1", ".", "1">>

IPAbsent == <<"9", ".", "9", ".", "9", ".", "9">>

IPShort == <<"1", ".", "1", ".", "1">>

IPLoop6 == <<":", ":", "1">>

Ans(type, data) == JObj([type |-> JStr(type), data |-> data])

\* A line holding a JSON object.  json is the object json.loads returns for
\* the line; text keeps the characters the loader itself inspects (strip,
\* startswith('{')).
ObjLine(fields) == [text |-> <<"{", "}", "\n">>, json |-> JObj(fields)]

Rec(name, answers) ==
    ObjLine([name |-> JStr(name), data |-> JObj([answers |-> JList(answers)])])

TextLine(chars) == [text |-> chars, json |-> JSONDecodeError]

\* A record whose name is null: obj.get('name', '') returns None.
NameNull ==
    ObjLine([name |-> JNull,
             data |-> JObj([answers |-> JList(<<Ans(TypeA, JStr(IPX))>>)])])

\* The lines the general answer files are built from.
LineSet ==
    { Rec(HostA \o <<".">>, <<Ans(TypeA, JStr(IPX))>>),
      Rec(HostB \o <<".">>, <<Ans(TypeCNAME, JStr(HostA \o <<".">>))>>),
      Rec(HostC, <<Ans(TypeCNAME, JStr(HostB))>>),
      Rec(HostA, <<Ans(TypeCNAME, JStr(HostB))>>),
      Rec(HostA, <<Ans(TypeA, JStr(IPShort)), Ans(TypeAAAA, JStr(IPLoop6))>>),
      Rec(HostA, <<>>),
      TextLine(<<"{", "x", "\n">>),
      TextLine(<<" ", "\n">>),
      NameNull }

GeneralFiles == UNION {[1..n -> LineSet] : n \in 0..MaxLines}

\* Single records of unusual shape, each followed by an ordinary record.
EdgeLines ==
    { TextLine(<<"#", "\n">>),
      Rec(HostB, <<Ans(TypeA, JNum(5)), Ans(<<"M", "X">>, JStr(HostC))>>),
      Rec(<<".">>, <<Ans(TypeA, JStr(IPX))>>),
      ObjLine([name |-> JStr(HostA)]),
      ObjLine([data |-> JObj([answers |-> JList(<<Ans(TypeA, JStr(IPX))>>)])]),
      ObjLine([name |-> JStr(HostA), data |-> JNull]),
      ObjLine([name |-> JStr(HostA), data |-> JObj([answers |-> JNum(7)])]),
      ObjLine([name |-> JStr(HostA), data |-> JObj([answers |-> JStr(IPX)])]),
      Rec(HostB, <<Ans(TypeA, JStr(IPX)), JStr(HostA)>>),
      Rec(HostB, <<Ans(TypeA, JStr(IPX)), JNull>>),
      Rec(HostB, <<Ans(TypeA, JList(<<JStr(IPX)>>))>>),
      Rec(HostB, <<JObj([type |-> JStr(TypeA)])>>),
      Rec(HostB, <<Ans(TypeCNAME, JNum(5))>>) }

EdgeFiles == {<<l, Rec(HostC, <<Ans(TypeA, JStr(IPX))>>)>> : l \in EdgeLines}

\* The name h<i>, i in 0..99.
DigitChar(d) ==
    CASE d = 0 -> "0" [] d = 1 -> "1" [] d = 2 -> "2" [] d = 3 -> "3"
      [] d = 4 -> "4" [] d = 5 -> "5" [] d = 6 -> "6" [] d = 7 -> "7"
      [] d = 8 -> "8" [] OTHER -> "9"

ChainHost(i) ==
    IF i < 10 THEN <<"h", DigitChar(i)>>
    ELSE <<"h", DigitChar(i \div 10), DigitChar(i % 10)>>

\* A CNAME chain h0 -> h1 -> ... -> h<max_depth + 1>, whose last name has
\* the only A record: from h0 that name is the (max_depth + 1)st target.
ChainLast == max_depth + 1

ChainCname(i) == Rec(ChainHost(i), <<Ans(TypeCNAME, JStr(ChainHost(i + 1)))>>)

ChainA == Rec(ChainHost(ChainLast), <<Ans(TypeA, JStr(IPX))>>)

ChainForward == <<ChainA>> \o [i \in 1..ChainLast |-> ChainCname(i - 1)]

ChainReverse == <<ChainA>> \o [i \in 1..ChainLast |-> ChainCname(ChainLast - i)]

DnsFiles == GeneralFiles \cup EdgeFiles \cup {ChainForward, ChainReverse}

\* The raw lines a scan file is built from; it has at most MaxScan lines.
ScanSet ==
    { IPX \o <<":", "8", "0", "\n">>,
      IPX \o <<"\n">>,
      IPX \o <<":", "\n">>,
      IPAbsent \o <<":", "8", "0", "\n">>,
      IPLoop6 \o <<"\n">>,
      <<" ", "\n">> }

\* ----------------------------------------------------------------- state

VARIABLES
    pc,            \* where the program is
    f,             \* unread lines of the DNS answer file
    lineno,        \* enumerate(f, start=1) of the file being read
    ip_map,        \* defaultdict(list): address -> host list
    cname_map,     \* dict: host -> CNAME target
    ci,            \* position of the second pass in cname_map.items()
    cname_host,    \* second pass: the host being resolved
    target,        \* resolve_cname_chain: the current target
    visited,       \* resolve_cname_chain: the shared visited set
    resolved_ips,  \* resolve_cname_chain: addresses gathered so far
    raw,           \* main: the scan line read last
    stdout,        \* lines printed
    stderr,        \* warnings printed
    direct         \* history: <<host, address>> of the valid direct answers read

vars == <<pc, f, lineno, ip_map, cname_map, ci, cname_host, target, visited,
          resolved_ips, raw, stdout, stderr, direct>>

loaderVars == <<ip_map, cname_map, ci, cname_host, target, visited, resolved_ips, direct>>

resolveVars == <<cname_host, target, visited, resolved_ips>>

Init ==
    /\ pc = "open_dns"
    /\ f = <<>>
    /\ lineno = 0
    /\ ip_map = <<>>
    /\ cname_map = <<>>
    /\ ci = 0
    /\ cname_host = <<>>
    /\ target = <<>>
    /\ visited = {}
    /\ resolved_ips = <<>>
    /\ raw = <<>>
    /\ stdout = <<>>
    /\ stderr = <<>>
    /\ direct = {}

\* Line 17: open the answer file; its content is the environment's choice.
OpenDns ==
    /\ pc = "open_dns"
    /\ f' \in DnsFiles
    /\ pc' = "pass1"
    /\ UNCHANGED <<lineno, loaderVars, raw, stdout, stderr>>

\* One iteration of the first-pass loop (lines 18-51) on the next line.
ReadLine(outcome) ==
    /\ f # <<>>
    /\ LET r == ProcessLine(Head(f), ip_map, cname_map)
       IN  /\ r.outcome = outcome
           /\ ip_map' = r.ip_map
           /\ cname_map' = r.cname_map
           /\ stderr' = IF outcome = "badjson"
                        THEN Append(stderr, Warn("skipping invalid JSON", lineno + 1, <<>>))
                        ELSE stderr
           /\ pc' = IF outcome = "raise" THEN "aborted" ELSE "pass1"
    /\ direct' = direct \cup DirectPairs(Head(f))
    /\ f' = Tail(f)
    /\ lineno' = lineno + 1
    /\ UNCHANGED <<ci, resolveVars, raw, stdout>>

SkipLine ==
    /\ pc = "pass1"
    /\ ReadLine("skip")

InvalidJson ==
    /\ pc = "pass1"
    /\ ReadLine("badjson")

SkipRecord ==
    /\ pc = "pass1"
    /\ ReadLine("norec")

LoadRecord ==
    /\ pc = "pass1"
    /\ ReadLine("record")

\* An exception load_ip_map does not catch ends the program.
Abort ==
    /\ pc = "pass1"
    /\ ReadLine("raise")

\* The file is exhausted: the second pass starts (line 54).
EndFirstPass ==
    /\ pc = "pass1"
    /\ f = <<>>
    /\ pc' = "pass2"
    /\ ci' = 1
    /\ UNCHANGED <<f, lineno, ip_map, cname_map, resolveVars, raw, stdout, stderr, direct>>

\* Lines 54-55: the next item of cname_map, and the call of resolve_cname_chain.
CallResolve ==
    /\ pc = "pass2"
    /\ ci <= Len(cname_map)
    /\ cname_host' = cname_map[ci][1].v
    /\ target' = cname_map[ci][2]
    /\ visited' = {}
    /\ resolved_ips' = <<>>
    /\ pc' = "resolve"
    /\ UNCHANGED <<f, lineno, ip_map, cname_map, ci, raw, stdout, stderr, direct>>

\* Lines 71-72: the guard holds, this call returns [] and the calls above it
\* return what they gathered.
ResolveStop ==
    /\ pc = "resolve"
    /\ ChainStops(target, visited)
    /\ pc' = "extend"
    /\ UNCHANGED <<f, lineno, ip_map, cname_map, ci, resolveVars, raw, stdout, stderr, direct>>

\* Lines 74-85: visit the target, gather its addresses, follow its CNAME.
ResolveVisit ==
    /\ pc = "resolve"
    /\ ~ChainStops(target, visited)
    /\ visited' = visited \cup {target}
    /\ resolved_ips' = resolved_ips \o DirectIPs(ip_map, target, 1)
    /\ IF FollowsCname(cname_map, target)
       THEN /\ target' = Lookup(cname_map, JStr(target))
            /\ pc' = "resolve"
       ELSE /\ target' = target
            /\ pc' = "extend"
    /\ UNCHANGED <<f, lineno, ip_map, cname_map, ci, cname_host, raw, stdout, stderr, direct>>

\* Lines 56-58: the CNAME host joins the list of every address found.
Extend ==
    /\ pc = "extend"
    /\ ip_map' = ExtendAll(ip_map, resolved_ips, cname_host)
    /\ ci' = ci + 1
    /\ pc' = "pass2"
    /\ UNCHANGED <<f, lineno, cname_map, resolveVars, raw, stdout, stderr, direct>>

\* Line 60 and line 96: load_ip_map returns the mapping to main; its other
\* locals go out of scope.
ReturnMap ==
    /\ pc = "pass2"
    /\ ci > Len(cname_map)
    /\ pc' = "open_smap"
    /\ cname_map' = <<>>
    /\ ci' = 0
    /\ cname_host' = <<>>
    /\ target' = <<>>
    /\ visited' = {}
    /\ resolved_ips' = <<>>
    /\ UNCHANGED <<f, lineno, ip_map, direct, raw, stdout, stderr>>

\* Line 98: open the scan file.
OpenSmap ==
    /\ pc = "open_smap"
    /\ raw' = <<>>
    /\ lineno' = 0
    /\ pc' = "correlate"
    /\ UNCHANGED <<f, loaderVars, stdout, stderr>>

\* One iteration of main's loop (lines 99-122): the file yields its next
\* line r, the environment's choice.
Entry(r) == strip(r)

ScanNext(r) ==
    /\ pc = "correlate"
    /\ lineno < MaxScan
    /\ raw' = r
    /\ lineno' = lineno + 1
    /\ pc' = "correlate"
    /\ UNCHANGED <<f, cname_map, ci, resolveVars, direct>>

\* Lines 101-102.
ScanBlank ==
    \E r \in ScanSet :
        /\ ScanNext(r)
        /\ Entry(r) = <<>>
        /\ UNCHANGED <<ip_map, stdout, stderr>>

\* Lines 110-114.
\* (Faulty variant: the line is skipped without the warning.)
ScanInvalidIPSilent ==
    \E r \in ScanSet :
        /\ ScanNext(r)
        /\ Entry(r) # <<>>
        /\ ~ip_address_str(IpPart(Entry(r)))
        /\ UNCHANGED <<ip_map, stdout, stderr>>

ScanInvalidIP ==
    \E r \in ScanSet :
        /\ ScanNext(r)
        /\ Entry(r) # <<>>
        /\ ~ip_address_str(IpPart(Entry(r)))
        /\ stderr' = Append(stderr, Warn("invalid IP", lineno + 1, IpPart(Entry(r))))
        /\ UNCHANGED <<ip_map, stdout>>

\* Lines 116-119.
ScanNoHosts ==
    \E r \in ScanSet :
        /\ ScanNext(r)
        /\ Entry(r) # <<>>
        /\ ip_address_str(IpPart(Entry(r)))
        /\ LET got == MapGet(ip_map, JStr(IpPart(Entry(r))))
           IN  /\ got.hosts = <<>>
               /\ ip_map' = got.ip_map
        /\ stderr' = Append(stderr,
                            Warn("no subdomain for IP", lineno + 1, IpPart(Entry(r))))
        /\ UNCHANGED stdout

\* Lines 116-122.
ScanEmit ==
    \E r \in ScanSet :
        /\ ScanNext(r)
        /\ Entry(r) # <<>>
        /\ ip_address_str(IpPart(Entry(r)))
        /\ LET got == MapGet(ip_map, JStr(IpPart(Entry(r))))
           IN  /\ got.hosts # <<>>
               /\ ip_map' = got.ip_map
               /\ stdout' = stdout \o EmitAll(got.hosts, Entry(r))
        /\ UNCHANGED stderr

\* The scan file ends: main returns.
Exit ==
    /\ pc = "correlate"
    /\ pc' = "done"
    /\ UNCHANGED <<f, lineno, loaderVars, raw, stdout, stderr>>

Next ==
    \/ OpenDns
    \/ SkipLine
    \/ InvalidJson
    \/ SkipRecord
    \/ LoadRecord
    \/ Abort
    \/ EndFirstPass
    \/ CallResolve
    \/ ResolveStop
    \/ ResolveVisit
    \/ Extend
    \/ ReturnMap
    \/ OpenSmap
    \/ ScanBlank
    \/ ScanInvalidIP
    \/ ScanNoHosts
    \/ ScanEmit
    \/ Exit

Spec == Init /\ [][Next]_vars

\* The loader is sequential code: once the first pass is over it runs every
\* step of the second pass it can take.
FairSpec ==
    /\ Spec
    /\ WF_vars(CallResolve)
    /\ WF_vars(ResolveStop)
    /\ WF_vars(ResolveVisit)
    /\ WF_vars(Extend)
    /\ WF_vars(ReturnMap)

\* ------------------------------------------------------ vocabulary of claims

\* The second pass has handled every item of cname_map: load_ip_map is at
\* its return statement, with both maps still in scope.
SecondPassDone == pc = "pass2" /\ ci > Len(cname_map)

\* load_ip_map has finished building the mapping.
Loaded == SecondPassDone \/ pc \in {"open_smap", "correlate", "done"}

InSecondPass == pc \in {"pass2", "resolve", "extend"}

HostsOf(X) == IF Has(ip_map, X) THEN Lookup(ip_map, X) ELSE <<>>

NoDup(xs) == \A i, j \in 1..Len(xs) : i # j => xs[i] # xs[j]

HasCname(h) == Has(cname_map, JStr(h))

Cname(h) == Lookup(cname_map, JStr(h))

CnameHosts == {cname_map[i][1].v : i \in 1..Len(cname_map)}

Names == CnameHosts \cup {cname_map[i][2] : i \in 1..Len(cname_map)}

HasDirect(h) == \E p \in direct : p[1] = h

\* The distinct names met when following CNAMEs from t, in order, with no cap.
RECURSIVE Walk(_, _)
Walk(t, seen) ==
    IF t \in seen THEN <<>>
    ELSE <<t>> \o (IF HasCname(t) THEN Walk(Cname(t), seen \cup {t}) ELSE <<>>)

Targets(h) == Walk(Cname(h), {})

OnCycle(h) == HasCname(h) /\ InList(h, Targets(h))

\* ----------------------------------------------------------------- claims

\* C1: after load_ip_map finishes, no address's host list holds the same
\* hostname twice, also when the same (hostname, address) A/AAAA pair occurs
\* twice in the input.
C1_NoDuplicateHosts ==
    Loaded => \A i \in 1..Len(ip_map) : NoDup(ip_map[i][2])

\* The chain h1 -> h2 -> h3 of C2: h3 has a direct record for X, h1 and h2
\* have no direct record at all.
ChainCase(h1, h2, h3, X) ==
    /\ HasCname(h1) /\ Cname(h1) = h2
    /\ HasCname(h2) /\ Cname(h2) = h3
    /\ <<h3, X>> \in direct
    /\ ~HasDirect(h1)
    /\ ~HasDirect(h2)

\* C2 as stated: for h1 -> h2 -> h3 with h3 directly on X and no direct record
\* for h1 and h2, after the load X's list holds h1 and h3 and does not hold h2.
C2_IntermediateAbsent ==
    SecondPassDone =>
        \A h1 \in Names, h2 \in Names, h3 \in Names, X \in Keys(ip_map) :
            ChainCase(h1, h2, h3, X) =>
                /\ InList(h1, HostsOf(X))
                /\ InList(h3, HostsOf(X))
                /\ ~InList(h2, HostsOf(X))

\* C2 amended: for h1 -> h2 -> h3 with h3 directly on X and no direct record
\* for h1 and h2, after the load X's list holds h1, h3 and also h2 (h2 has a
\* CNAME of its own, so the second pass resolves it as well).
C2_ChainResolved ==
    SecondPassDone =>
        \A h1 \in Names, h2 \in Names, h3 \in Names, X \in Keys(ip_map) :
            ChainCase(h1, h2, h3, X) =>
                /\ InList(h1, HostsOf(X))
                /\ InList(h2, HostsOf(X))
                /\ InList(h3, HostsOf(X))

C2_Witness ==
    /\ SecondPassDone
    /\ \E h1 \in Names, h2 \in Names, h3 \in Names, X \in Keys(ip_map) :
          /\ ChainCase(h1, h2, h3, X)
          /\ InList(h1, HostsOf(X))
          /\ InList(h2, HostsOf(X))
          /\ HostsOf(X)[Len(HostsOf(X))] = h2

\* h's chain reaches a name with a direct record for X only beyond the
\* max_depth-th distinct target.
BeyondCap(h, X) ==
    LET T == Targets(h)
    IN  /\ \E i \in 1..Len(T) : i > max_depth /\ <<T[i], X>> \in direct
        /\ \A i \in 1..Len(T) : i <= max_depth => <<T[i], X>> \notin direct

\* C3: a hostname whose CNAME chain reaches a name with a direct record for X
\* only beyond the 10th distinct target is not in X's list after the load,
\* whatever the order of the lines.
C3_CapHolds ==
    SecondPassDone =>
        \A h \in CnameHosts, X \in Keys(ip_map) :
            (BeyondCap(h, X) /\ <<h, X>> \notin direct) => ~InList(h, HostsOf(X))

\* A host on a CNAME cycle none of whose members has a direct record is in
\* no address's list.
CycleClean ==
    \A h \in CnameHosts :
        (OnCycle(h) /\ \A i \in 1..Len(Targets(h)) : ~HasDirect(Targets(h)[i]))
            => \A k \in 1..Len(ip_map) : ~InList(h, ip_map[k][2])

ScanStep == pc = "correlate" /\ pc' = "correlate"

\* The entry's address part is an address with a non-empty list in the mapping.
Resolvable(e) ==
    /\ ip_address_str(IpPart(e))
    /\ HostsOf(JStr(IpPart(e))) # <<>>

\* C5: for every non-blank scan line exactly one of two outcomes occurs:
\* (a) the address is valid and has a non-empty list: at least one line is
\* printed and no warning; (b) otherwise nothing is printed and exactly one
\* warning, for that line, is emitted; the loop then goes on.
C5_OneOutcomePerEntry ==
    [][(ScanStep /\ strip(raw') # <<>>) =>
          LET e == strip(raw')
          IN  /\ pc' = "correlate"
              /\ IF Resolvable(e)
                 THEN /\ Len(stdout') > Len(stdout)
                      /\ stderr' = stderr
                 ELSE /\ stdout' = stdout
                      /\ Len(stderr') = Len(stderr) + 1
                      /\ SubSeq(stderr', 1, Len(stderr)) = stderr
                      /\ stderr'[Len(stderr')].lineno = lineno']_vars

C5_Witness ==
    /\ pc = "correlate"
    /\ lineno = 2
    /\ Len(stdout) > 0
    /\ \E i \in 1..Len(stderr) : stderr[i].lineno = 2 /\ stderr[i].msg = "invalid IP"

\* The lines C6 expects for an entry: hostname:port whenever the entry holds
\* a ':' separator, hostname alone otherwise.
ExpectedWhenColon(hosts, e) ==
    [i \in 1..Len(hosts) |->
        IF HasPort(e) THEN hosts[i] \o <<":">> \o Port(e) ELSE hosts[i]]

\* The same, with the port appended only when it is not empty.
ExpectedWhenPort(hosts, e) ==
    [i \in 1..Len(hosts) |->
        IF HasPort(e) /\ Len(Port(e)) > 0
        THEN hosts[i] \o <<":">> \o Port(e) ELSE hosts[i]]

\* In every list the directly resolved hostnames precede the CNAME-derived.
DirectFirst ==
    \A k \in 1..Len(ip_map) :
        \A i, j \in 1..Len(ip_map[k][2]) :
            (<<ip_map[k][2][i], ip_map[k][1]>> \notin direct
               /\ <<ip_map[k][2][j], ip_map[k][1]>> \in direct) => j < i

\* C6 as stated: for every entry with a valid address present in the mapping,
\* one line per element of the list, in list order, hostname:port whenever the
\* entry holds a ':', hostname alone only when it holds none.
C6_PortWheneverColon ==
    [][(ScanStep /\ Resolvable(strip(raw'))) =>
          stdout' = stdout \o ExpectedWhenColon(HostsOf(JStr(IpPart(strip(raw')))),
                                                strip(raw'))]_vars

\* C6 amended: for every entry with a valid address present in the mapping,
\* one line per element of the list, in list order (direct hostnames before
\* CNAME-derived ones); hostname:port when the entry holds a ':' followed by
\* a non-empty port, hostname alone when it holds no ':' or the port is empty.
C6_PortWhenNonEmpty ==
    /\ [][(ScanStep /\ Resolvable(strip(raw'))) =>
            stdout' = stdout \o ExpectedWhenPort(HostsOf(JStr(IpPart(strip(raw')))),
                                                 strip(raw'))]_vars
    /\ [](Loaded => DirectFirst)

C6_Witness ==
    /\ pc = "correlate"
    /\ lineno = 2
    /\ Len(HostsOf(JStr(IPX))) = 2
    /\ stdout = << HostsOf(JStr(IPX))[1], HostsOf(JStr(IPX))[2],
                   HostsOf(JStr(IPX))[1] \o <<":", "8", "0">>,
                   HostsOf(JStr(IPX))[2] \o <<":", "8", "0">> >>

\* A step of the first pass that read a line.
ReadStep == pc = "pass1" /\ f # <<>> /\ f' = Tail(f)

\* The record holds an A/AAAA answer whose data is not an address.
HasInvalidAddress(line) ==
    /\ WellFormedRecord(line)
    /\ LET answers == line.json.v["data"].v["answers"].v
       IN  \E i \in 1..Len(answers) :
              LET rt == dict_get(answers[i], "type", JNull)
                  d  == dict_get(answers[i], "data", JNull)
              IN  /\ JEq(rt, JStr(TypeA)) \/ JEq(rt, JStr(TypeAAAA))
                  /\ Truthy(d)
                  /\ ~ip_address(d)

IsBadJson(line) ==
    /\ startswith(strip(line.text), "{")
    /\ JEq(line.json, JSONDecodeError)

C8_NeverAborts == pc # "aborted"

\* C9: the loader completes before the first scan line is read, and the
\* correlator never modifies the mapping: keys and lists stay what
\* load_ip_map returned, a lookup miss creates no entry.
C9_MappingReadOnly ==
    /\ [][(pc \in {"open_smap", "correlate", "done"}) => ip_map' = ip_map]_vars
    /\ []((lineno > 0 /\ pc \in {"correlate", "done"}) => (f = <<>> /\ ci = 0))
    /\ [](raw # <<>> => pc \in {"correlate", "done"})

C9_Witness ==
    /\ pc = "done"
    /\ lineno = 2
    /\ Len(ip_map) > 0
    /\ \E i \in 1..Len(stderr) : stderr[i].msg = "no subdomain for IP"
    /\ \E i \in 1..Len(stderr) : stderr[i].msg = "invalid IP"

\* C10: every hostname h in the list of address X has a valid direct answer
\* for X in the input, or has a CNAME whose chain reaches a hostname with a
\* direct answer for X; the second pass creates no key.
C10_Sound ==
    /\ []((pc = "pass1" \/ InSecondPass) =>
            \A k \in 1..Len(ip_map) : \A i \in 1..Len(ip_map[k][2]) :
                LET h == ip_map[k][2][i]
                    X == ip_map[k][1]
                IN  \/ <<h, X>> \in direct
                    \/ /\ HasCname(h)
                       /\ \E j \in 1..Len(Targets(h)) : <<Targets(h)[j], X>> \in direct)
    /\ [][InSecondPass => Keys(ip_map') = Keys(ip_map)]_vars
    /\ [](pc # "aborted" => Keys(ip_map) = {p[2] : p \in direct})

C10_Witness ==
    /\ SecondPassDone
    /\ \E k \in 1..Len(ip_map) : \E i \in 1..Len(ip_map[k][2]) :
          /\ <<ip_map[k][2][i], ip_map[k][1]>> \notin direct
          /\ Len(Targets(ip_map[k][2][i])) >= 2

====
